---- MODULE Spec2Model ----
(***************************************************************************)
(* Formal model of Distribution_Regression_Streams:                        *)
(*   utils/experiments.py  kernel-matrix helpers, metric functions and the *)
(*                         experiment entry points                         *)
(*   src/kerES.py          model(): hyper-parameter grid merge and trials  *)
(* Each part is a state machine of its own over its own variables; the     *)
(* specifications SpecKernel, SpecMetrics, SpecGrid and SpecExp run one     *)
(* part each while the other parts stay idle.                              *)
(***************************************************************************)
EXTENDS Integers, Sequences, FiniteSets, TLC

\* ------------------------------------------------------------------ bounds
\* longest list of feature vectors given to the kernel helpers
MaxN == 2
\* longest feature vector
MaxDim == 2
\* coordinates of the feature vectors
Vals == {-1, 2}

VARIABLES
  \* ---- kernel helpers (precompute_K, augment_K_precomputed)
  fn,            \* the helper being run
  X,             \* argument X (precompute_K) or X_train (augment_K_precomputed)
  x_test,        \* argument x_test of augment_K_precomputed
  K_arg,         \* argument K_precomputed of augment_K_precomputed
  K_local,       \* the local matrix: K_precomputed (line 20) or K_aug (line 30)
  i, j,          \* loop indices
  kpc,           \* source line about to run, or "returned" / "raised"
  kresult        \* what the caller sees of the call

kvars == <<fn, X, x_test, K_arg, K_local, i, j, kpc, kresult>>

VARIABLES
  \* ---- metric functions (compute_rmse, compute_MAPE, compute_r2)
  mfn,           \* the metric function being called
  y_,            \* argument y_
  pred,          \* argument pred
  perm,          \* a permutation of the positions of y_ and pred
  order,         \* the argsort each call used: <<first call, second call>>
  mout           \* the value each call returned: first on (y_, pred), then on
                 \* (y_[perm], pred[perm])

mvars == <<mfn, y_, pred, perm, order, mout>>

VARIABLES
  \* ---- kerES.model
  mode,          \* argument mode
  grid,          \* argument grid: a dict from parameter names to value lists
  NUM_TRIALS,    \* argument NUM_TRIALS
  dim1,          \* X[0][0].shape[1] == 1
  ll, at,        \* arguments ll ("None" or a list) and at
  parameters,    \* the local parameters
  clf,           \* the local clf
  scores,        \* scores[0 .. trial-1], the entries written so far
  gpc,           \* source line about to run, or "returned" / "raised"
  gresult        \* what the caller sees of the call

gvars == <<mode, grid, NUM_TRIALS, dim1, ll, at, parameters, clf, scores, gpc, gresult>>

VARIABLES
  \* ---- experiment entry points
  entry,         \* the entry point being run
  RBF,           \* argument RBF (RBF_top in the naive entry points)
  full,          \* argument full of experiment_ARD
  plot,          \* argument plot
  param_init,    \* argument param_init
  y,             \* argument y, one target per sample
  train_index,   \* positions of the training samples
  test_index,    \* positions of the test samples
  axs,           \* the local axs: "unbound" until plt.subplots binds it
  gp,            \* the local model, a GP object
  mu_test,       \* the local mu_test
  mu_train,      \* the local mu_train
  lengthscales,  \* the local lengthscales of experiment_ARD
  metrics,       \* the metric locals computed so far, name -> value
  calls,         \* the predict calls made so far, with what each one read
  epc,           \* position in the entry point's statement sequence
  estatus,       \* "running", "returned" or "raised"
  eresult        \* what the caller sees of the call

evars == <<entry, RBF, full, plot, param_init, y, train_index, test_index, axs, gp,
           mu_test, mu_train, lengthscales, metrics, calls, epc, estatus, eresult>>

vars == <<kvars, mvars, gvars, evars>>

\* ------------------------------------------------------------ numpy values
\* an n x n array, indexed from 0 as in the source
Zeros(n) == [n |-> n, a |-> [p \in (0 .. n - 1) \X (0 .. n - 1) |-> 0]]

Get(m, r, c) == m.a[<<r, c>>]

SetEntry(m, r, c, v) == [m EXCEPT !.a[<<r, c>>] = v]

\* python's negative index -1 on an axis of the given size
Last(m) == m.n - 1

RECURSIVE DotSum(_, _, _)
DotSum(a, b, k) == IF k = 0 THEN 0 ELSE a[k] * b[k] + DotSum(a, b, k - 1)

\* mutant: a dot product that walks the first vector only and never raises on a
\* longer second one
Aligned_prefix(a, b) == Len(a) <= Len(b)

\* np.dot of two 1-D arrays raises ValueError unless the lengths agree
Aligned(a, b) == Len(a) = Len(b)

np_dot(a, b) == DotSum(a, b, Len(a))

\* the feature vector at 0-based position p of a python list
At(L, p) == L[p + 1]

\* ------------------------------------------------------------ precompute_K
\* mutant: line 25 (the mirror assignment) missing
pre_assign_nomirror(K, L, r, c) == SetEntry(K, r, c, 1 + np_dot(At(L, r), At(L, c)))

\* mutant: the bias 1. of line 24 missing
pre_assign_nobias(K, L, r, c) ==
  LET K1 == SetEntry(K, r, c, np_dot(At(L, r), At(L, c)))
  IN  SetEntry(K1, c, r, Get(K1, r, c))

\* lines 24-25: both assignments of one loop iteration
pre_assign(K, L, r, c) ==
  LET K1 == SetEntry(K, r, c, 1 + np_dot(At(L, r), At(L, c)))
  IN  SetEntry(K1, c, r, Get(K1, r, c))

\* the pair visited after (r, c) in "for i in range(n): for j in range(i + 1)"
NextPair(r, c) == IF c < r THEN <<r, c + 1>> ELSE <<r + 1, 0>>

\* precompute_K as a function: the loop run to its end
RECURSIVE pre_loop(_, _, _, _)
pre_loop(K, L, r, c) ==
  IF r >= Len(L) THEN [ok |-> TRUE, K |-> K]
  ELSE IF ~Aligned(At(L, r), At(L, c)) THEN [ok |-> FALSE, K |-> Zeros(0)]
  ELSE pre_loop(pre_assign(K, L, r, c), L, NextPair(r, c)[1], NextPair(r, c)[2])

precompute_K(L) == pre_loop(Zeros(Len(L)), L, 0, 0)

\* ------------------------------------------------------------------ inputs
Vecs == UNION {[1 .. d -> Vals] : d \in 0 .. MaxDim}

Lists == UNION {[1 .. n -> Vecs] : n \in 0 .. MaxN}

\* a matrix with pairwise distinct entries, not symmetric
Distinct(n, c) == [n |-> n, a |-> [p \in (0 .. n - 1) \X (0 .. n - 1) |-> c + 10 * p[1] + p[2]]]

\* the n x n matrices handed to augment_K_precomputed
KArgs(L) ==
  {Distinct(Len(L), c) : c \in {3, 50}}
    \cup (IF precompute_K(L).ok THEN {precompute_K(L).K} ELSE {})

NoResult == [kind |-> "none", K |-> Zeros(0), exc |-> "none"]

KernelStart ==
  /\ fn \in {"precompute_K", "augment_K_precomputed"}
  /\ X \in Lists
  /\ IF fn = "precompute_K"
       THEN x_test = <<>> /\ K_arg = Zeros(0) /\ kpc = "L20"
       ELSE x_test \in Vecs /\ K_arg \in KArgs(X) /\ kpc = "L30"
  /\ K_local = Zeros(0)
  /\ i = 0
  /\ j = 0
  /\ kresult = NoResult

KernelIdle ==
  /\ fn = "idle" /\ X = <<>> /\ x_test = <<>> /\ K_arg = Zeros(0) /\ K_local = Zeros(0)
  /\ i = 0 /\ j = 0 /\ kpc = "idle" /\ kresult = NoResult

\* an exception leaves the function: its locals are gone, the caller sees the error
KRaise(e) ==
  /\ kpc' = "raised"
  /\ kresult' = [kind |-> "exception", K |-> Zeros(0), exc |-> e]
  /\ K_local' = Zeros(0)
  /\ UNCHANGED <<fn, X, x_test, K_arg, i, j>>

\* line 20
pre_alloc ==
  /\ fn = "precompute_K" /\ kpc = "L20"
  /\ K_local' = Zeros(Len(X))
  /\ i' = 0 /\ j' = 0
  /\ kpc' = IF Len(X) = 0 THEN "L26" ELSE "L24"
  /\ UNCHANGED <<fn, X, x_test, K_arg, kresult>>

\* lines 22-25, one iteration of the inner loop
pre_pair ==
  /\ fn = "precompute_K" /\ kpc = "L24"
  /\ IF ~Aligned(At(X, i), At(X, j))
       THEN KRaise("ValueError")
       ELSE /\ K_local' = pre_assign(K_local, X, i, j)
            /\ i' = NextPair(i, j)[1]
            /\ j' = NextPair(i, j)[2]
            /\ kpc' = IF NextPair(i, j)[1] >= Len(X) THEN "L26" ELSE "L24"
            /\ UNCHANGED <<fn, X, x_test, K_arg, kresult>>

\* line 26
pre_return ==
  /\ fn = "precompute_K" /\ kpc = "L26"
  /\ kresult' = [kind |-> "value", K |-> K_local, exc |-> "none"]
  /\ kpc' = "returned"
  /\ UNCHANGED <<fn, X, x_test, K_arg, K_local, i, j>>

\* --------------------------------------------------- augment_K_precomputed
\* line 31: K_aug[:n, :n] = K_precomputed
aug_copy_block(Ka, K, n) ==
  [Ka EXCEPT !.a = [p \in DOMAIN Ka.a |->
                      IF p[1] < n /\ p[2] < n THEN Get(K, p[1], p[2]) ELSE Ka.a[p]]]

\* mutant: the border written at index n - 1 instead of -1
aug_assign_shifted(Ka, L, xt, r) ==
  LET K1 == SetEntry(Ka, Last(Ka) - 1, r, 1 + np_dot(At(L, r), xt))
  IN  SetEntry(K1, r, Last(K1) - 1, Get(K1, Last(K1) - 1, r))

\* lines 33-34
aug_assign(Ka, L, xt, r) ==
  LET K1 == SetEntry(Ka, Last(Ka), r, 1 + np_dot(At(L, r), xt))
  IN  SetEntry(K1, r, Last(K1), Get(K1, Last(K1), r))

\* mutant: the bias 1. forgotten in the corner
aug_assign_corner_nobias(Ka, xt) == SetEntry(Ka, Last(Ka), Last(Ka), np_dot(xt, xt))

\* line 35
aug_assign_corner(Ka, xt) == SetEntry(Ka, Last(Ka), Last(Ka), 1 + np_dot(xt, xt))

\* line 30
aug_alloc ==
  /\ fn = "augment_K_precomputed" /\ kpc = "L30"
  /\ K_local' = Zeros(Len(X) + 1)
  /\ kpc' = "L31"
  /\ UNCHANGED <<fn, X, x_test, K_arg, i, j, kresult>>

\* line 31
aug_copy ==
  /\ fn = "augment_K_precomputed" /\ kpc = "L31"
  /\ K_local' = aug_copy_block(K_local, K_arg, Len(X))
  /\ i' = 0
  /\ kpc' = IF Len(X) = 0 THEN "L35" ELSE "L33"
  /\ UNCHANGED <<fn, X, x_test, K_arg, j, kresult>>

\* lines 32-34, one iteration
aug_border ==
  /\ fn = "augment_K_precomputed" /\ kpc = "L33"
  /\ IF ~Aligned(At(X, i), x_test)
       THEN KRaise("ValueError")
       ELSE /\ K_local' = aug_assign(K_local, X, x_test, i)
            /\ i' = i + 1
            /\ kpc' = IF i + 1 >= Len(X) THEN "L35" ELSE "L33"
            /\ UNCHANGED <<fn, X, x_test, K_arg, j, kresult>>

\* line 35
aug_corner ==
  /\ fn = "augment_K_precomputed" /\ kpc = "L35"
  /\ K_local' = aug_assign_corner(K_local, x_test)
  /\ kpc' = "L36"
  /\ UNCHANGED <<fn, X, x_test, K_arg, i, j, kresult>>

\* line 36
aug_return ==
  /\ fn = "augment_K_precomputed" /\ kpc = "L36"
  /\ kresult' = [kind |-> "value", K |-> K_local, exc |-> "none"]
  /\ kpc' = "returned"
  /\ UNCHANGED <<fn, X, x_test, K_arg, K_local, i, j>>

\* the other parts stay as they are while a kernel helper runs
KFrame == UNCHANGED <<mvars, gvars, evars>>

KernelNext ==
  \/ pre_alloc /\ KFrame
  \/ pre_pair /\ KFrame
  \/ pre_return /\ KFrame
  \/ aug_alloc /\ KFrame
  \/ aug_copy /\ KFrame
  \/ aug_border /\ KFrame
  \/ aug_corner /\ KFrame
  \/ aug_return /\ KFrame

\* ============================================================== metrics
\* longest target vector given to a metric function
MaxLen == 3
\* target values and predicted values
YVals == {-1, 0, 2}
PVals == {0, 1}

\* ---- floating-point values: a rational n/d, nan, inf, -inf, or the square
\* root of a rational (kind "sqrt"); rationals are kept in lowest terms, d > 0
RECURSIVE GCD(_, _)
GCD(a, b) == IF b = 0 THEN a ELSE GCD(b, a % b)

Abs(a) == IF a < 0 THEN -a ELSE a

F(n, d) ==
  LET g == GCD(Abs(n), Abs(d))
      sg == IF d < 0 THEN -1 ELSE 1
  IN  [kind |-> "num", n |-> sg * (n \div g), d |-> sg * (d \div g)]

NaN == [kind |-> "nan", n |-> 0, d |-> 1]
Inf == [kind |-> "inf", n |-> 0, d |-> 1]
NegInf == [kind |-> "-inf", n |-> 0, d |-> 1]

FNeg(a) ==
  CASE a.kind = "num" -> F(-a.n, a.d)
    [] a.kind = "inf" -> NegInf
    [] a.kind = "-inf" -> Inf
    [] OTHER -> NaN

FAdd(a, b) ==
  CASE a.kind = "nan" \/ b.kind = "nan" -> NaN
    [] a.kind = "num" /\ b.kind = "num" -> F(a.n * b.d + b.n * a.d, a.d * b.d)
    [] a.kind = "num" -> b
    [] b.kind = "num" -> a
    [] a.kind = b.kind -> a
    [] OTHER -> NaN

FSub(a, b) == FAdd(a, FNeg(b))

\* a * b for finite a, b
FMul(a, b) == F(a.n * b.n, a.d * b.d)

\* a / b as IEEE division does it: x/0 is inf, -inf or nan, never an exception
FDiv(a, b) ==
  CASE a.kind = "nan" \/ b.kind = "nan" -> NaN
    [] a.kind = "num" /\ b.kind = "num" ->
         IF b.n # 0 THEN F(a.n * b.d, a.d * b.n)
         ELSE IF a.n = 0 THEN NaN
         ELSE IF a.n > 0 THEN Inf ELSE NegInf
    [] a.kind = "num" -> F(0, 1)
    [] b.kind = "num" ->
         IF (b.n >= 0) = (a.kind = "inf") THEN Inf ELSE NegInf
    [] OTHER -> NaN

np_sqrt(a) ==
  CASE a.kind = "num" -> IF a.n < 0 THEN NaN ELSE [kind |-> "sqrt", n |-> a.n, d |-> a.d]
    [] a.kind = "inf" -> Inf
    [] OTHER -> NaN

\* np.sum of a 1-D array, left to right
RECURSIVE np_sum(_)
np_sum(s) == IF s = <<>> THEN F(0, 1) ELSE FAdd(np_sum(SubSeq(s, 1, Len(s) - 1)), s[Len(s)])

\* np.mean: the sum over the count, nan for an empty array
np_mean(s) == FDiv(np_sum(s), F(Len(s), 1))

\* s[order] (fancy indexing); order holds 0-based positions
Take(s, o) == [k \in 1 .. Len(o) |-> s[o[k] + 1]]

\* mutant: pred used in its own order while y_ is sorted
pred_at_unordered(pr, o) == pr

\* pred[order]
pred_at(pr, o) == Take(pr, o)

\* the float array of an integer sequence
Floats(s) == [k \in 1 .. Len(s) |-> F(s[k], 1)]

Perms(n) == {p \in [1 .. n -> 0 .. n - 1] : \A a, b \in 1 .. n : a # b => p[a] # p[b]}

\* np.argsort(s) with the default (not stable) sort: some permutation that sorts
\* s; which one among tied values is not specified
Argsorts(s) == {o \in Perms(Len(s)) : \A a, b \in 1 .. Len(s) : a < b => s[o[a] + 1] <= s[o[b] + 1]}

Sq(a) == FMul(a, a)

FAbs(a) == F(Abs(a.n), a.d)

\* line 350, with the order of line 349
compute_rmse(yt, pr, o) ==
  LET ys == Floats(Take(yt, o))
      ps == Floats(pred_at(pr, o))
  IN  np_sqrt(np_mean([k \in 1 .. Len(ys) |-> Sq(FSub(ys[k], ps[k]))]))

\* line 355, with the order of line 354
compute_MAPE(yt, pr, o) ==
  LET ys == Floats(Take(yt, o))
      ps == Floats(pred_at(pr, o))
  IN  np_mean([k \in 1 .. Len(ys) |-> FDiv(FAbs(FSub(ys[k], ps[k])), ys[k])])

\* lines 360-364, with the order of line 359
compute_r2(yt, pr, o) ==
  LET ys == Floats(Take(yt, o))
      ps == Floats(pred_at(pr, o))
      num == np_sum([k \in 1 .. Len(ys) |-> Sq(FSub(ps[k], ys[k]))])
      mean == np_mean(ys)
      denum == np_sum([k \in 1 .. Len(ys) |-> Sq(FSub(ys[k], mean))])
  IN  FSub(F(1, 1), FDiv(num, denum))

Metric(f, yt, pr, o) ==
  CASE f = "compute_rmse" -> compute_rmse(yt, pr, o)
    [] f = "compute_MAPE" -> compute_MAPE(yt, pr, o)
    [] f = "compute_r2" -> compute_r2(yt, pr, o)

MetricsStart ==
  /\ mfn \in {"compute_rmse", "compute_MAPE", "compute_r2"}
  /\ \E n \in 0 .. MaxLen :
       /\ y_ \in [1 .. n -> YVals]
       /\ pred \in [1 .. n -> PVals]
       /\ perm \in Perms(n)
  /\ order = <<>>
  /\ mout = <<>>

MetricsIdle ==
  /\ mfn = "idle" /\ y_ = <<>> /\ pred = <<>> /\ perm = <<>> /\ order = <<>> /\ mout = <<>>

\* the arguments of the next call: the vectors as given, then both permuted by perm
ArgY == IF Len(mout) = 0 THEN y_ ELSE Take(y_, perm)
ArgPred == IF Len(mout) = 0 THEN pred ELSE Take(pred, perm)

\* one call of the metric function f, from its argsort to its return
MetricCall(f) ==
  /\ mfn = f
  /\ Len(mout) < 2
  /\ \E o \in Argsorts(ArgY) :
       /\ order' = Append(order, o)
       /\ mout' = Append(mout, Metric(f, ArgY, ArgPred, o))
  /\ UNCHANGED <<mfn, y_, pred, perm>>

call_compute_rmse == MetricCall("compute_rmse")

call_compute_MAPE == MetricCall("compute_MAPE")

call_compute_r2 == MetricCall("compute_r2")

MFrame == UNCHANGED <<kvars, gvars, evars>>

MetricsNext ==
  \/ call_compute_rmse /\ MFrame
  \/ call_compute_MAPE /\ MFrame
  \/ call_compute_r2 /\ MFrame

\* ========================================================== kerES.model
\* most keys in a user grid
MaxGridKeys == 2
\* largest NUM_TRIALS
MaxTrials == 2
\* mean squared errors a trial can score
MSEVals == {0, 3}

\* lines 119-128: gamma returns its argument (the conversion is commented out)
gamma(l) == l

\* lines 64-68
DefaultKRR ==
  [k \in {"clf__kernel", "clf__gamma", "clf__alpha", "expected_signature_transform__order"} |->
     CASE k = "clf__kernel" -> <<"rbf">>
       [] k = "clf__gamma" -> <<gamma("1e-3"), gamma("1e-2"), gamma("1e-1"), gamma("1"),
                                gamma("1e1"), gamma("1e2"), gamma("1e-3")>>
       [] k = "clf__alpha" -> <<"1e-3", "1e-2", "1e-1", "1", "1e1", "1e2", "1e3">>
       [] OTHER -> <<"2", "3">>]

\* lines 83-87: the dict inside the list
DefaultSVR ==
  [k \in {"clf__kernel", "clf__gamma", "clf__C", "expected_signature_transform__order"} |->
     CASE k = "clf__kernel" -> <<"rbf">>
       [] k = "clf__gamma" -> <<gamma("1e-2"), gamma("1e-1"), gamma("1"), gamma("1e1"), gamma("1e2")>>
       [] k = "clf__C" -> <<"1e-3", "1e-2", "1e-1", "1", "1e1", "1e2", "1e3">>
       [] OTHER -> <<"2", "3">>]

\* python values: a dict {...} and a list [{...}] holding one dict
Dict(d) == [type |-> "dict", d |-> d]
ListOf(d) == [type |-> "list", d |-> d]
NoParams == [type |-> "none", d |-> <<>>]

\* only a dict has .keys() and .update(); on a list both raise AttributeError
HasDictMethods(p) == p.type = "dict"

\* line 71: len(list(set(parameters.keys()) & set(grid.keys()))) == len(list(grid.keys()))
KeysAccepted(p, g) == Cardinality(DOMAIN p.d \cap DOMAIN g) = Cardinality(DOMAIN g)

\* dict.update: the keys of g replace or extend those of p
DictUpdate(p, g) ==
  Dict([k \in DOMAIN p.d \cup DOMAIN g |-> IF k \in DOMAIN g THEN g[k] ELSE p.d[k]])

UserKeys ==
  {"clf__kernel", "clf__gamma", "clf__alpha", "clf__C",
   "expected_signature_transform__order", "clf__degree"}

UserLists == {<<"linear">>, <<"1", "5">>}

Grids ==
  UNION {[ks -> UserLists] : ks \in {S \in SUBSET UserKeys : Cardinality(S) <= MaxGridKeys}}

NoReturn == [kind |-> "none", exc |-> "none", mean |-> NaN, std |-> NaN]

GridStart ==
  /\ mode \in {"krr", "svr", "lasso"}
  /\ grid \in Grids
  /\ NUM_TRIALS \in 0 .. MaxTrials
  /\ dim1 \in BOOLEAN
  /\ ll \in {"None", "[0]"}
  /\ at \in BOOLEAN
  /\ parameters = NoParams
  /\ clf = "unbound"
  /\ scores = <<>>
  /\ gpc = "L50"
  /\ gresult = NoReturn

GridIdle ==
  /\ mode = "idle" /\ grid = <<>> /\ NUM_TRIALS = 0 /\ dim1 = FALSE /\ ll = "None"
  /\ at = FALSE /\ parameters = NoParams /\ clf = "unbound" /\ scores = <<>>
  /\ gpc = "idle" /\ gresult = NoReturn

GRaise(e) ==
  /\ gpc' = "raised"
  /\ gresult' = [gresult EXCEPT !.kind = "exception", !.exc = e]
  /\ UNCHANGED <<mode, grid, NUM_TRIALS, dim1, ll, at, scores>>

\* line 50
assert_mode ==
  /\ gpc = "L50"
  /\ IF mode \in {"svr", "krr"}
       THEN gpc' = "L53" /\ UNCHANGED <<mode, grid, NUM_TRIALS, dim1, ll, at, scores, gresult>>
       ELSE GRaise("AssertionError")
  /\ UNCHANGED <<parameters, clf>>

\* lines 53-59: a one-dimensional path needs lead-lag or add-time
embed ==
  /\ gpc = "L53"
  /\ IF dim1 /\ ~(ll # "None" \/ at)
       THEN GRaise("AssertionError")
       ELSE gpc' = "L61" /\ UNCHANGED <<mode, grid, NUM_TRIALS, dim1, ll, at, scores, gresult>>
  /\ UNCHANGED <<parameters, clf>>

\* lines 61-78, the branch mode == 'krr'
krr_grid ==
  /\ gpc = "L61" /\ mode = "krr"
  /\ LET p == Dict(DefaultKRR)
     IN  IF ~HasDictMethods(p)
           THEN GRaise("AttributeError") /\ parameters' = p /\ UNCHANGED clf
         ELSE IF ~KeysAccepted(p, grid)
           THEN GRaise("AssertionError") /\ parameters' = p /\ UNCHANGED clf
         ELSE /\ parameters' = DictUpdate(p, grid)
              /\ clf' = "KernelRidge"
              /\ gpc' = "L99"
              /\ UNCHANGED <<mode, grid, NUM_TRIALS, dim1, ll, at, scores, gresult>>

\* lines 80-95, the else branch (mode == 'svr'); the assertion of line 90 compares
\* two lists, list(set & set) == list(grid.keys()), whose orders need not agree
svr_grid ==
  /\ gpc = "L61" /\ mode # "krr"
  /\ LET p == ListOf(DefaultSVR)
     IN  IF ~HasDictMethods(p)
           THEN GRaise("AttributeError") /\ parameters' = p /\ UNCHANGED clf
         ELSE IF ~KeysAccepted(p, grid)
           THEN GRaise("AssertionError") /\ parameters' = p /\ UNCHANGED clf
         ELSE \/ /\ Cardinality(DOMAIN grid) >= 2
                 /\ GRaise("AssertionError") /\ parameters' = p /\ UNCHANGED clf
              \/ /\ parameters' = DictUpdate(p, grid)
                 /\ clf' = "SVR"
                 /\ gpc' = "L99"
                 /\ UNCHANGED <<mode, grid, NUM_TRIALS, dim1, ll, at, scores, gresult>>

\* lines 99-102: the pipeline and scores = np.zeros(NUM_TRIALS)
build_pipe ==
  /\ gpc = "L99"
  /\ scores' = <<>>
  /\ gpc' = IF NUM_TRIALS = 0 THEN "L116" ELSE "L105"
  /\ UNCHANGED <<mode, grid, NUM_TRIALS, dim1, ll, at, parameters, clf, gresult>>

\* lines 105-114, one trial: split, grid search, fit, predict, score
trial ==
  /\ gpc = "L105"
  /\ \E mse \in MSEVals : scores' = Append(scores, mse)
  /\ gpc' = IF Len(scores) + 1 >= NUM_TRIALS THEN "L116" ELSE "L105"
  /\ UNCHANGED <<mode, grid, NUM_TRIALS, dim1, ll, at, parameters, clf, gresult>>

\* scores.std(): the root of the mean squared deviation from the mean
np_std(s) == np_sqrt(np_mean([k \in 1 .. Len(s) |-> Sq(FSub(s[k], np_mean(s)))]))

\* line 116
model_return ==
  /\ gpc = "L116"
  /\ gresult' = [kind |-> "value", exc |-> "none",
                 mean |-> np_mean(Floats(scores)), std |-> np_std(Floats(scores))]
  /\ gpc' = "returned"
  /\ UNCHANGED <<mode, grid, NUM_TRIALS, dim1, ll, at, parameters, clf, scores>>

GFrame == UNCHANGED <<kvars, mvars, evars>>

GridNext ==
  \/ assert_mode /\ GFrame
  \/ embed /\ GFrame
  \/ krr_grid /\ GFrame
  \/ svr_grid /\ GFrame
  \/ build_pipe /\ GFrame
  \/ trial /\ GFrame
  \/ model_return /\ GFrame

\* ================================================ experiment entry points
\* number of samples of an experiment
NSamples == 3
\* target values of an experiment
EVals == {0, 2}

\* the step budgets the entry points hand to train
STEPS_naive_arbitrary == 2000
STEPS_naive == 2000
STEPS_precomputed == 20000
STEPS_ARD == 3000

NaiveEntries == {"naive_experiment", "naive_experiment_arbitrary"}

\* ---- the GP object (GP_models.*), as the design describes it: raw
\* hyper-parameters, changed by training only, and the attributes the entry
\* point sets on it. theta counts the updates made to the raw hyper-parameters.
NoGP ==
  [built |-> FALSE, theta |-> 0, train_calls |-> 0, steps |-> 0, K |-> FALSE,
   K_full |-> -1, K_full_writes |-> 0, indices_1 |-> <<>>, indices_2 |-> <<>>]

\* GP(...): a model with its initial hyper-parameters
GP_new == [NoGP EXCEPT !.built = TRUE]

\* train(model, n_steps): n_steps updates of the raw hyper-parameters in place,
\* no convergence test
GP_train(m, n) ==
  [m EXCEPT !.theta = m.theta + n, !.steps = m.steps + n, !.train_calls = m.train_calls + 1]

\* model.get_K_RBF_Sig(K): the RBF-wrapped kernel under the current hyper-parameters
GP_get_K_RBF_Sig(m) == m.theta

\* what a predict call reads; it changes nothing of the model
GP_read(m, which, rbf) ==
  [which |-> which, theta |-> m.theta, train_calls |-> m.train_calls,
   K_full |-> IF rbf THEN m.K_full ELSE -1,
   indices_1 |-> m.indices_1, indices_2 |-> m.indices_2]

\* the posterior means a predict call can return for the targets yq of the
\* queried samples: one entry per queried sample
MuChoices(yq) == {[k \in 1 .. Len(yq) |-> 1], [k \in 1 .. Len(yq) |-> yq[k] + 1]}

\* ---- the statement sequence of each entry point
\* mutant: the full kernel cached before training instead of after it
PrecomputedBody_cached_first(rbf) ==
  IF rbf THEN <<"K_full", "train", "indices", "predict_test", "indices_2", "predict_train">>
         ELSE <<"train", "predict_test", "predict_train">>

\* lines 195-209 of experiment_precomputed
PrecomputedBody(rbf) ==
  IF rbf THEN <<"train", "K_full", "indices", "predict_test", "indices_2", "predict_train">>
         ELSE <<"train", "predict_test", "predict_train">>

Flow(e, rbf) ==
  CASE e \in NaiveEntries ->
         <<"plot_setup", "slice", "construct", "train", "predict_test", "predict_train",
           "metrics", "plot_fit", "return">>
    [] e = "experiment_precomputed" ->
         <<"plot_setup", "slice", "construct", "get_K">> \o PrecomputedBody(rbf)
           \o <<"metrics", "plot_fit", "return">>
    [] e = "experiment_ARD" ->
         <<"slice", "plot_setup", "construct", "train", "predict_test", "predict_train",
           "metrics", "plot_fit", "return">>

\* the positions of param_init the constructor call reads
ParamReads(e) == IF e \in NaiveEntries THEN {0, 1, 2, 3} ELSE {0, 1, 2}

\* the train call reads axs[0]: always in experiment_ARD, elsewhere only under "if plot"
TrainReadsAxs(e, pl) == e = "experiment_ARD" \/ pl

\* mutant: the budgets of experiment_ARD and experiment_precomputed exchanged
Steps_exchanged(e) ==
  CASE e = "naive_experiment_arbitrary" -> STEPS_naive_arbitrary
    [] e = "naive_experiment" -> STEPS_naive
    [] e = "experiment_precomputed" -> STEPS_ARD
    [] e = "experiment_ARD" -> STEPS_precomputed

Steps(e) ==
  CASE e = "naive_experiment_arbitrary" -> STEPS_naive_arbitrary
    [] e = "naive_experiment" -> STEPS_naive
    [] e = "experiment_precomputed" -> STEPS_precomputed
    [] e = "experiment_ARD" -> STEPS_ARD

\* the metric locals an entry point computes
MetricNames(e) ==
  IF e = "experiment_ARD"
    THEN {"R2_train", "RMSE_train", "R2_test", "RMSE_test"}
    ELSE {"R2_train", "RMSE_train", "MAPE_train", "R2_test", "RMSE_test", "MAPE_test"}

\* the names in the return statement, in its order
ReturnNames(e, fl) ==
  IF e = "experiment_ARD"
    THEN <<"RMSE_train", "R2_train", "RMSE_test", "R2_test">>
           \o (IF fl THEN <<"lengthscales">> ELSE <<>>)
    ELSE <<"RMSE_train", "R2_train", "MAPE_train", "RMSE_test", "R2_test", "MAPE_test">>

y_train == Take(y, train_index)
y_test == Take(y, test_index)

\* the ascending sequence of a set of positions
Ascending(S) ==
  CHOOSE q \in [1 .. Cardinality(S) -> S] : \A a, b \in 1 .. Cardinality(S) : a < b => q[a] < q[b]

\* train/test partitions of the samples; naive_experiment_arbitrary takes a split
\* point and cuts y[:train_index], y[train_index:]
Splits(e) ==
  IF e = "naive_experiment_arbitrary"
    THEN {<<Ascending(0 .. t - 1), Ascending(t .. NSamples - 1)>> : t \in 1 .. NSamples - 1}
    ELSE {<<Ascending(S), Ascending((0 .. NSamples - 1) \ S)>> :
            S \in (SUBSET (0 .. NSamples - 1)) \ {{}, 0 .. NSamples - 1}}

NoValue == [kind |-> "none", exc |-> "none", value |-> <<>>]

ExpStart ==
  /\ entry \in NaiveEntries \cup {"experiment_precomputed", "experiment_ARD"}
  /\ RBF \in BOOLEAN
  /\ full \in (IF entry = "experiment_ARD" THEN BOOLEAN ELSE {FALSE})
  /\ plot \in BOOLEAN
  /\ param_init \in {<<0, 0, 0>>, <<0, 0, 0, 0>>}
  /\ y \in [1 .. NSamples -> EVals]
  /\ \E sp \in Splits(entry) : train_index = sp[1] /\ test_index = sp[2]
  /\ axs = "unbound"
  /\ gp = NoGP
  /\ mu_test = <<>>
  /\ mu_train = <<>>
  /\ lengthscales = -1
  /\ metrics = <<>>
  /\ calls = <<>>
  /\ epc = 1
  /\ estatus = "running"
  /\ eresult = NoValue

ExpIdle ==
  /\ entry = "idle" /\ RBF = FALSE /\ full = FALSE /\ plot = FALSE /\ param_init = <<>>
  /\ y = <<>> /\ train_index = <<>> /\ test_index = <<>> /\ axs = "unbound" /\ gp = NoGP
  /\ mu_test = <<>> /\ mu_train = <<>> /\ lengthscales = -1 /\ metrics = <<>>
  /\ calls = <<>> /\ epc = 1 /\ estatus = "idle" /\ eresult = NoValue

EArgs == <<entry, RBF, full, plot, param_init, y, train_index, test_index>>

At_(ph) == estatus = "running" /\ Flow(entry, RBF)[epc] = ph

Advance == epc' = epc + 1 /\ UNCHANGED <<estatus, eresult>>

ERaise(e) ==
  /\ estatus' = "raised"
  /\ eresult' = [kind |-> "exception", exc |-> e, value |-> <<>>]
  /\ UNCHANGED epc

\* "if plot:" with sns.set_context and fig, axs = plt.subplots(...)
e_plot_setup ==
  /\ At_("plot_setup")
  /\ axs' = IF plot THEN "bound" ELSE axs
  /\ Advance
  /\ UNCHANGED <<EArgs, gp, mu_test, mu_train, lengthscales, metrics, calls>>

\* y_train, y_test (and x_train, x_test) cut out of the arguments
e_slice ==
  /\ At_("slice")
  /\ Advance
  /\ UNCHANGED <<EArgs, axs, gp, mu_test, mu_train, lengthscales, metrics, calls>>

\* model = GP(..., param_init[0], param_init[1], ...)
e_construct ==
  /\ At_("construct")
  /\ IF \E q \in ParamReads(entry) : q >= Len(param_init)
       THEN ERaise("IndexError") /\ UNCHANGED gp
       ELSE gp' = GP_new /\ Advance
  /\ UNCHANGED <<EArgs, axs, mu_test, mu_train, lengthscales, metrics, calls>>

\* lines 190-194: K, K_s, K_ss and model.K
e_get_K ==
  /\ At_("get_K")
  /\ gp' = [gp EXCEPT !.K = TRUE]
  /\ Advance
  /\ UNCHANGED <<EArgs, axs, mu_test, mu_train, lengthscales, metrics, calls>>

\* the train call; experiment_ARD then reads the fitted lengthscales when full
e_train ==
  /\ At_("train")
  /\ IF TrainReadsAxs(entry, plot) /\ axs = "unbound"
       THEN ERaise("UnboundLocalError") /\ UNCHANGED <<gp, lengthscales>>
       ELSE /\ gp' = GP_train(gp, Steps(entry))
            /\ lengthscales' = IF entry = "experiment_ARD" /\ full
                                 THEN gp'.theta ELSE lengthscales
            /\ Advance
  /\ UNCHANGED <<EArgs, axs, mu_test, mu_train, metrics, calls>>

\* line 201
e_K_full ==
  /\ At_("K_full")
  /\ gp' = [gp EXCEPT !.K_full = GP_get_K_RBF_Sig(gp), !.K_full_writes = gp.K_full_writes + 1]
  /\ Advance
  /\ UNCHANGED <<EArgs, axs, mu_test, mu_train, lengthscales, metrics, calls>>

\* lines 202-203
e_indices ==
  /\ At_("indices")
  /\ gp' = [gp EXCEPT !.indices_1 = train_index, !.indices_2 = test_index]
  /\ Advance
  /\ UNCHANGED <<EArgs, axs, mu_test, mu_train, lengthscales, metrics, calls>>

\* mutant: indices_2 left at test_index for the training prediction
e_indices_2_stale ==
  /\ At_("indices_2")
  /\ Advance
  /\ UNCHANGED <<EArgs, axs, gp, mu_test, mu_train, lengthscales, metrics, calls>>

\* line 205
e_indices_2 ==
  /\ At_("indices_2")
  /\ gp' = [gp EXCEPT !.indices_2 = train_index]
  /\ Advance
  /\ UNCHANGED <<EArgs, axs, mu_test, mu_train, lengthscales, metrics, calls>>

ReadsK_full == entry = "experiment_precomputed" /\ RBF

\* mu_test, stdv_test = predict on the test samples
e_predict_test ==
  /\ At_("predict_test")
  /\ calls' = Append(calls, GP_read(gp, "test", ReadsK_full))
  /\ mu_test' \in MuChoices(y_test)
  /\ Advance
  /\ UNCHANGED <<EArgs, axs, gp, mu_train, lengthscales, metrics>>

\* mu_train, stdv_train = predict on the training samples
e_predict_train ==
  /\ At_("predict_train")
  /\ calls' = Append(calls, GP_read(gp, "train", ReadsK_full))
  /\ mu_train' \in MuChoices(y_train)
  /\ Advance
  /\ UNCHANGED <<EArgs, axs, gp, mu_test, lengthscales, metrics>>

\* the compute_r2 / compute_rmse / compute_MAPE calls of the entry point
e_metrics ==
  /\ At_("metrics")
  /\ \E o_train \in Argsorts(y_train), o_test \in Argsorts(y_test) :
       metrics' = [nm \in MetricNames(entry) |->
          CASE nm = "R2_train" -> compute_r2(y_train, mu_train, o_train)
            [] nm = "RMSE_train" -> compute_rmse(y_train, mu_train, o_train)
            [] nm = "MAPE_train" -> compute_MAPE(y_train, mu_train, o_train)
            [] nm = "R2_test" -> compute_r2(y_test, mu_test, o_test)
            [] nm = "RMSE_test" -> compute_rmse(y_test, mu_test, o_test)
            [] nm = "MAPE_test" -> compute_MAPE(y_test, mu_test, o_test)]
  /\ Advance
  /\ UNCHANGED <<EArgs, axs, gp, mu_test, mu_train, lengthscales, calls>>

\* "if plot:" with the two plot_fit calls on axs[1], axs[2]
e_plot_fit ==
  /\ At_("plot_fit")
  /\ IF plot /\ axs = "unbound"
       THEN ERaise("UnboundLocalError")
       ELSE Advance
  /\ UNCHANGED <<EArgs, axs, gp, mu_test, mu_train, lengthscales, metrics, calls>>

Lengthscales(v) == [kind |-> "array", n |-> v, d |-> 1]

\* the return statement
e_return ==
  /\ At_("return")
  /\ eresult' =
       [kind |-> "value", exc |-> "none",
        value |-> [k \in 1 .. Len(ReturnNames(entry, full)) |->
                     LET nm == ReturnNames(entry, full)[k]
                     IN  [name |-> nm,
                          val |-> IF nm = "lengthscales" THEN Lengthscales(lengthscales)
                                                         ELSE metrics[nm]]]]
  /\ estatus' = "returned"
  /\ UNCHANGED epc
  /\ UNCHANGED <<EArgs, axs, gp, mu_test, mu_train, lengthscales, metrics, calls>>

EFrame == UNCHANGED <<kvars, mvars, gvars>>

ExpNext ==
  \/ e_plot_setup /\ EFrame
  \/ e_slice /\ EFrame
  \/ e_construct /\ EFrame
  \/ e_get_K /\ EFrame
  \/ e_train /\ EFrame
  \/ e_K_full /\ EFrame
  \/ e_indices /\ EFrame
  \/ e_indices_2 /\ EFrame
  \/ e_predict_test /\ EFrame
  \/ e_predict_train /\ EFrame
  \/ e_metrics /\ EFrame
  \/ e_plot_fit /\ EFrame
  \/ e_return /\ EFrame

\* ---------------------------------------------------------- specifications
KernelInit == KernelStart /\ MetricsIdle /\ GridIdle /\ ExpIdle

SpecKernel == KernelInit /\ [][KernelNext]_vars

MetricsInit == MetricsStart /\ KernelIdle /\ GridIdle /\ ExpIdle

SpecMetrics == MetricsInit /\ [][MetricsNext]_vars

GridInit == GridStart /\ KernelIdle /\ MetricsIdle /\ ExpIdle

SpecGrid == GridInit /\ [][GridNext]_vars

ExpInit == ExpStart /\ KernelIdle /\ MetricsIdle /\ GridIdle

SpecExp == ExpInit /\ [][ExpNext]_vars

\* the interpreter runs the statements of an entry point one after the other:
\* a statement that can run does run. Fairness is stated for the statements up
\* to the second prediction
SpecExpLive ==
  /\ ExpInit
  /\ [][ExpNext]_vars
  /\ WF_vars(e_plot_setup /\ EFrame)
  /\ WF_vars(e_slice /\ EFrame)
  /\ WF_vars(e_construct /\ EFrame)
  /\ WF_vars(e_get_K /\ EFrame)
  /\ WF_vars(e_train /\ EFrame)
  /\ WF_vars(e_K_full /\ EFrame)
  /\ WF_vars(e_indices /\ EFrame)
  /\ WF_vars(e_indices_2 /\ EFrame)
  /\ WF_vars(e_predict_test /\ EFrame)
  /\ WF_vars(e_predict_train /\ EFrame)

\* ========================================================= kernel claims
Returned(f) == fn = f /\ kpc = "returned"

Idx(n) == 0 .. n - 1

IsSquare(m, n) == m.n = n /\ DOMAIN m.a = Idx(n) \X Idx(n)

\* the inner product <a, b> of two vectors of one length
RECURSIVE Inner(_, _)
Inner(a, b) == IF a = <<>> THEN 0 ELSE Head(a) * Head(b) + Inner(Tail(a), Tail(b))

EqualLengths(L) == \A p, q \in DOMAIN L : Len(L[p]) = Len(L[q])

\* C1: for a list X of n equal-length vectors precompute_K returns, and what it
\* returns is an n x n matrix with K[r][c] = K[c][r] for all r, c
C1_Symmetric ==
  /\ (fn = "precompute_K" /\ EqualLengths(X)) => kpc # "raised"
  /\ Returned("precompute_K") =>
       /\ kresult.kind = "value"
       /\ IsSquare(kresult.K, Len(X))
       /\ \A r, c \in Idx(Len(X)) : Get(kresult.K, r, c) = Get(kresult.K, c, r)

C1_Witness ==
  /\ Returned("precompute_K")
  /\ Len(X) = 2
  /\ X[1] # X[2]
  /\ Get(kresult.K, 1, 0) # 0

\* C2: augment_K_precomputed returns an (n+1) x (n+1) matrix whose top-left
\* n x n block is K entry for entry, and the block already equals K at every
\* point after the copy of line 31: the border and corner writes leave it alone
C2_BlockPreserved ==
  /\ (fn = "augment_K_precomputed" /\ kpc \in {"L33", "L35", "L36"}) =>
       \A r, c \in Idx(Len(X)) : Get(K_local, r, c) = Get(K_arg, r, c)
  /\ Returned("augment_K_precomputed") =>
       /\ kresult.kind = "value"
       /\ IsSquare(kresult.K, Len(X) + 1)
       /\ \A r, c \in Idx(Len(X)) : Get(kresult.K, r, c) = Get(K_arg, r, c)

C2_Witness ==
  /\ Returned("augment_K_precomputed")
  /\ Len(X) = 2
  /\ K_arg = Distinct(2, 3)
  /\ Get(kresult.K, 2, 1) # 0

\* C3: every entry of precompute_K(X), diagonal included, is 1 + <X[r], X[c]>
C3_Entries ==
  Returned("precompute_K") =>
    \A r, c \in Idx(Len(X)) : Get(kresult.K, r, c) = 1 + Inner(At(X, r), At(X, c))

C3_Witness ==
  /\ Returned("precompute_K")
  /\ Len(X) = 2
  /\ Len(X[1]) = 2
  /\ X[1] # X[2]
  /\ Inner(X[1], X[2]) # -1
  /\ Inner(X[2], X[2]) # -1

\* C4: the border of the augmented matrix is A[n][r] = A[r][n] = 1 + <X_train[r], x_test>,
\* its corner is 1 + <x_test, x_test>, and augmenting precompute_K(X) by x gives
\* precompute_K(X followed by x)
C4_Border ==
  Returned("augment_K_precomputed") =>
    LET n == Len(X)
        A == kresult.K
    IN  /\ \A r \in Idx(n) :
             /\ Get(A, n, r) = 1 + Inner(At(X, r), x_test)
             /\ Get(A, r, n) = 1 + Inner(At(X, r), x_test)
        /\ Get(A, n, n) = 1 + Inner(x_test, x_test)
        /\ (precompute_K(X).ok /\ K_arg = precompute_K(X).K) =>
             /\ precompute_K(Append(X, x_test)).ok
             /\ A = precompute_K(Append(X, x_test)).K

C4_Witness ==
  /\ Returned("augment_K_precomputed")
  /\ Len(X) = 2
  /\ Len(x_test) = 2
  /\ precompute_K(X).ok
  /\ K_arg = precompute_K(X).K
  /\ x_test # X[1]

\* the pairs of the double loop of precompute_K, in the order it visits them
Before(p, q) == p[1] < q[1] \/ (p[1] = q[1] /\ p[2] < q[2])

LoopPairs(n) == {p \in Idx(n) \X Idx(n) : p[2] <= p[1]}

Offending(L, p) == Len(At(L, p[1])) # Len(At(L, p[2]))

KError == [kind |-> "exception", K |-> Zeros(0), exc |-> "ValueError"]

\* C8: with two vectors of different lengths precompute_K never returns a matrix;
\* it ends raised with a ValueError at the first offending pair of its loop, the
\* caller sees the exception and no matrix, and nothing runs after the raise.
\* The same for augment_K_precomputed and the first training vector whose length
\* differs from x_test's.
C8_DimensionError ==
  /\ (fn = "precompute_K" /\ ~EqualLengths(X)) =>
       /\ kpc # "returned"
       /\ kresult.kind # "value"
       /\ (~ENABLED KernelNext) => kpc = "raised"
  /\ (fn = "precompute_K" /\ kpc = "raised") =>
       /\ kresult = KError
       /\ <<i, j>> \in LoopPairs(Len(X))
       /\ Offending(X, <<i, j>>)
       /\ \A p \in LoopPairs(Len(X)) : Before(p, <<i, j>>) => ~Offending(X, p)
  /\ (fn = "augment_K_precomputed" /\ \E r \in Idx(Len(X)) : Len(At(X, r)) # Len(x_test)) =>
       /\ kpc # "returned"
       /\ kresult.kind # "value"
       /\ (~ENABLED KernelNext) => kpc = "raised"
  /\ (fn = "augment_K_precomputed" /\ kpc = "raised") =>
       /\ kresult = KError
       /\ i \in Idx(Len(X))
       /\ Len(At(X, i)) # Len(x_test)
       /\ \A r \in Idx(i) : Len(At(X, r)) = Len(x_test)
  /\ kpc = "raised" => ~ENABLED KernelNext

C8_Witness ==
  /\ fn = "augment_K_precomputed"
  /\ kpc = "raised"
  /\ i = 1
  /\ kresult = KError

\* ========================================================= metric claims
Range(s) == {s[k] : k \in DOMAIN s}

C7_ZeroTargetRaises ==
  (mfn = "compute_MAPE" /\ 0 \in Range(y_) /\ Len(mout) >= 1) =>
    mout[1].kind \notin {"nan", "inf", "-inf"}

\* ==================================================== kerES.model claims
DefaultGrid(m) == IF m = "krr" THEN DefaultKRR ELSE DefaultSVR

EmbeddingAccepted == ~dim1 \/ ll # "None" \/ at

\* the user grid laid over the default one
Merged(m, g) ==
  [k \in DOMAIN DefaultGrid(m) |-> IF k \in DOMAIN g THEN g[k] ELSE DefaultGrid(m)[k]]

\* C9: for mode 'krr' and for mode 'svr': a user grid with a key that is no
\* default key of the mode is rejected before any trial; any other user grid is
\* merged over the defaults (user lists replace, the rest keep their default),
\* exactly NUM_TRIALS trials run and the call returns (mean, std) of their scores
C9_GridMerge ==
  (mode \in {"krr", "svr"} /\ EmbeddingAccepted) =>
    IF DOMAIN grid \subseteq DOMAIN DefaultGrid(mode)
      THEN /\ gpc # "raised"
           /\ gpc \in {"L99", "L105", "L116", "returned"} =>
                parameters = Dict(Merged(mode, grid))
           /\ gpc = "returned" =>
                /\ Len(scores) = NUM_TRIALS
                /\ gresult.kind = "value"
                /\ gresult.mean = np_mean(Floats(scores))
                /\ gresult.std = np_std(Floats(scores))
      ELSE /\ gpc \notin {"L99", "L105", "L116", "returned"}
           /\ scores = <<>>
           /\ gpc = "raised" => gresult.exc = "AssertionError"

\* ================================================ experiment claims
SixMetrics == <<"RMSE_train", "R2_train", "MAPE_train", "RMSE_test", "R2_test", "MAPE_test">>

ReturnedNames == [k \in 1 .. Len(eresult.value) |-> eresult.value[k].name]

\* C6: every entry point that returns, returns the six metrics (train RMSE, R2,
\* MAPE, test RMSE, R2, MAPE) in this order; experiment_ARD with full=True
\* returns them followed by the fitted lengthscales
C6_SixMetrics ==
  estatus = "returned" =>
    ReturnedNames = SixMetrics \o (IF entry = "experiment_ARD" /\ full
                                     THEN <<"lengthscales">> ELSE <<>>)

Budget ==
  CASE entry \in NaiveEntries -> 2000
    [] entry = "experiment_ARD" -> 3000
    [] entry = "experiment_precomputed" -> 20000

Trained == estatus = "running" /\ gp.train_calls = 1 /\ calls = <<>>

C11_Safety ==
  /\ Budget \in 2000 .. 20000
  /\ gp.train_calls <= 1
  /\ gp.steps = IF gp.train_calls = 1 THEN Budget ELSE 0
  /\ \A k \in DOMAIN calls : calls[k].train_calls = 1 /\ calls[k].theta = Budget

C12_ARDCompletes ==
  entry = "experiment_ARD" => estatus # "raised"

\* the default value of param_init in all four signatures
DefaultParamInit == <<0, 0, 0>>

\* C13: called with the default param_init, every entry point constructs its
\* model: no run ends in an IndexError for a position the default does not have
C13_DefaultParamInitSuffices ==
  param_init = DefaultParamInit =>
    ~(estatus = "raised" /\ eresult.exc = "IndexError")

\* the index sequence of the block a predict call queries
Queried(which) == IF which = "test" THEN test_index ELSE train_index

MetricsComputed == metrics # <<>>

\* C14: in experiment_precomputed with RBF=True the test prediction is made
\* first and the training prediction second; at each dummy_predict call
\* indices_1 is train_index and indices_2 is the index sequence of the queried
\* block; the metrics pair mu_test with y[test_index] and mu_train with
\* y[train_index], position by position
C14_IndicesMatchQuery ==
  (entry = "experiment_precomputed" /\ RBF) =>
    /\ Len(calls) <= 2
    /\ \A k \in DOMAIN calls :
         /\ calls[k].which = IF k = 1 THEN "test" ELSE "train"
         /\ calls[k].indices_1 = train_index
         /\ calls[k].indices_2 = Queried(calls[k].which)
    /\ MetricsComputed =>
         /\ Len(calls) = 2
         /\ DOMAIN mu_test = DOMAIN y_test
         /\ DOMAIN mu_train = DOMAIN y_train
         /\ \E o \in Argsorts(y_test) :
              /\ metrics["RMSE_test"] = compute_rmse(y_test, mu_test, o)
              /\ metrics["MAPE_test"] = compute_MAPE(y_test, mu_test, o)
              /\ metrics["R2_test"] = compute_r2(y_test, mu_test, o)
         /\ \E o \in Argsorts(y_train) :
              /\ metrics["RMSE_train"] = compute_rmse(y_train, mu_train, o)
              /\ metrics["MAPE_train"] = compute_MAPE(y_train, mu_train, o)
              /\ metrics["R2_train"] = compute_r2(y_train, mu_train, o)

C14_Witness ==
  /\ entry = "experiment_precomputed"
  /\ RBF
  /\ MetricsComputed
  /\ Len(calls) = 2
  /\ calls[1].indices_2 = test_index
  /\ calls[2].indices_2 = train_index
  /\ Len(test_index) # Len(train_index)
  /\ \E k \in DOMAIN mu_test : mu_test[k] # y_test[k]

====
